---- MODULE Spec2Model ----
(***************************************************************************)
(* Model of rot: the IRC session state machine (src/src/irc_client.rs)     *)
(* and the counter store (src/src/rotdb.rs).                               *)
(*                                                                         *)
(* Byte strings are sequences of one-character strings.  Time is counted   *)
(* in minutes: ping_timer, delay_timer and conn_timer hold the minutes     *)
(* left until they are due.  The 15-minute interval save_timer is kept as  *)
(* "pending"/"due" only: a tick may become due at any moment of the run,   *)
(* which covers every phase of the interval against the other timers.     *)
(***************************************************************************)
EXTENDS Integers, Sequences, FiniteSets, TLC

VARIABLES
  pc,             \* position of the run() task: the await it is suspended at
  nick,           \* IrcClient.nick
  channels,       \* IrcClient.channels
  shutdown_recv,  \* the mpsc channel: "empty", "sent" (message queued), "taken"
  ping_state,     \* IrcClient.ping_state
  sock,           \* run()'s socket: "none", or "open" once a TcpStream is held
  wire,           \* the write_all calls polled on the current socket, in order
  rx,             \* number of non-empty reads done on the current socket
  chunk,          \* run()'s pending bytes (the line fragment kept across reads)
  dispatched,     \* the token lists of the lines dispatched by the last read
  ping_timer,     \* minutes until ping_timer is due
  save_timer,     \* whether a tick of save_timer is due: "pending", "due"
  delay_timer,    \* minutes left of the sleep in reconnect_delay
  conn_timer,     \* minutes left of the timeout around TcpStream::connect
  probe,          \* history: the PING probe on this socket: "none", "sent", "answered"
  ev,             \* history: the step of the session taken last
  reads,          \* history: number of non-empty reads in this run
  values,         \* RotDb.values: a function from stored keys to i64 values
  dirty,          \* RotDb.dirty
  file,           \* the backing file: [exists, bytes]
  db_state,       \* "live", "unwinding" (a call panicked), or "dropped" once
                  \* the RotDb has been released
  io,             \* history: how the last store call ended, when it was a sync
                  \* or a load: "clean", "ok", "open_failed", "write_failed",
                  \* "loaded"; "none" after any other call
  ret,            \* history: the value the last store call returned
  mutated,        \* history: the keys passed to increment/decrement on this store
  ops,            \* history: number of increment/decrement calls so far
  arg,            \* the argument given to the function under study
  res,            \* what the function returned for arg
  arg2,           \* a second argument, related to arg
  res2            \* what the function returned for arg2

sessionVars == <<pc, nick, channels, shutdown_recv, ping_state, sock, wire, rx,
                 chunk, dispatched, ping_timer, save_timer, delay_timer,
                 conn_timer, probe, ev, reads>>

dbVars == <<values, dirty, file, db_state, io, ret, mutated, ops>>

\* the functions that are studied on their own: parse_line, irc_split,
\* normalize_key and the framing of process_lines
pureVars == <<arg, res, arg2, res2>>

vars == <<sessionVars, dbVars, pureVars>>

----------------------------------------------------------------------------
(* Bounds of the model *)

MaxChannels == 2

MaxReads == 2

MaxVal == 1

MaxOps == 2

MaxStream == 5

MaxLine == 5

----------------------------------------------------------------------------
(* Program constants, in minutes *)

PING_INTERVAL == 5

TIMEOUT_DURATION == 1

RECONNECT_DELAY == 1

----------------------------------------------------------------------------
(* Byte strings *)

CRLF == <<"\r", "\n">>

STR_PING == <<"P", "I", "N", "G">>

STR_PONG == <<"P", "O", "N", "G">>

STR_PRIVMSG == <<"P", "R", "I", "V", "M", "S", "G">>

PING_PROBE == STR_PING \o <<" ", ":", "r", "o", "t">> \o CRLF

QUIT_LINE == <<"Q", "U", "I", "T", " ", ":", "-", "-", "r", "o", "t", "!">> \o CRLF

IdentBytes(n) ==
  <<"N", "I", "C", "K", " ">> \o n \o CRLF
    \o <<"U", "S", "E", "R", " ">> \o n \o <<" ", ".", " ", ".", " ", ":">> \o n \o CRLF

JoinBytes(chan) == <<"J", "O", "I", "N", " ", "#">> \o chan \o CRLF

PongBytes(target) == STR_PONG \o <<" ">> \o target \o CRLF

is_ascii_whitespace(c) == c \in {" ", "\t", "\n", "\f", "\r"}

----------------------------------------------------------------------------
(* irc_split *)

RECURSIVE SkipWhitespace(_, _)
SkipWhitespace(line, scan) ==
  IF scan < Len(line) /\ is_ascii_whitespace(line[scan + 1])
  THEN SkipWhitespace(line, scan + 1)
  ELSE scan

RECURSIVE SplitLoop(_, _, _)
SplitLoop(line, scan, parts) ==
  IF scan < Len(line)
  THEN IF is_ascii_whitespace(line[scan + 1])
       THEN LET pushed == Append(parts, SubSeq(line, 1, scan))
                rest == SubSeq(line, SkipWhitespace(line, scan) + 1, Len(line))
            IN IF Len(rest) > 0 /\ rest[1] = ":"
               THEN Append(pushed, rest)
               ELSE SplitLoop(rest, 0, pushed)
       ELSE SplitLoop(line, scan + 1, parts)
  ELSE IF scan # 0 THEN Append(parts, line) ELSE parts

irc_split(line) == SplitLoop(line, 0, <<>>)

----------------------------------------------------------------------------
(* process_lines *)

Position(bytes, c) ==
  IF \E i \in 1..Len(bytes) : bytes[i] = c
  THEN CHOOSE i \in 1..Len(bytes) :
         bytes[i] = c /\ \A j \in 1..(i - 1) : bytes[j] # c
  ELSE 0

\* `let _ = sock.write_all(..)` in the non-async process_lines: the future is
\* built and dropped without being polled, so no byte reaches the socket.
PongWrite(w, target) == w

\* process_lines looking for PONG in the first token instead of the second
RECURSIVE process_lines_first_token(_, _, _, _)
process_lines_first_token(bytes, ps, w, d) ==
  LET pos == Position(bytes, "\n") IN
  IF pos = 0
  THEN [chunk |-> bytes, ping_state |-> ps, wire |-> w, dispatched |-> d]
  ELSE LET parts == irc_split(SubSeq(bytes, 1, pos - 1))
           rest == SubSeq(bytes, pos + 1, Len(bytes))
       IN IF Len(parts) >= 2 /\ parts[1] = STR_PING
          THEN process_lines_first_token(rest, ps, PongWrite(w, parts[2]),
                                         Append(d, parts))
          ELSE IF Len(parts) >= 2 /\ parts[1] = STR_PONG
          THEN process_lines_first_token(rest, "Reset", w, Append(d, parts))
          ELSE IF Len(parts) >= 3 /\ parts[2] = STR_PRIVMSG
          THEN \* println!("Would process PRIVMSG"): the store is not touched
               process_lines_first_token(rest, ps, w, Append(d, parts))
          ELSE process_lines_first_token(rest, ps, w, Append(d, parts))

RECURSIVE process_lines(_, _, _, _)
process_lines(bytes, ps, w, d) ==
  LET pos == Position(bytes, "\n") IN
  IF pos = 0
  THEN [chunk |-> bytes, ping_state |-> ps, wire |-> w, dispatched |-> d]
  ELSE LET parts == irc_split(SubSeq(bytes, 1, pos - 1))
           rest == SubSeq(bytes, pos + 1, Len(bytes))
       IN IF Len(parts) >= 2 /\ parts[1] = STR_PING
          THEN process_lines(rest, ps, PongWrite(w, parts[2]), Append(d, parts))
          ELSE IF Len(parts) >= 2 /\ parts[2] = STR_PONG
          THEN process_lines(rest, "Reset", w, Append(d, parts))
          ELSE IF Len(parts) >= 3 /\ parts[2] = STR_PRIVMSG
          THEN \* println!("Would process PRIVMSG"): the store is not touched
               process_lines(rest, ps, w, Append(d, parts))
          ELSE process_lines(rest, ps, w, Append(d, parts))

----------------------------------------------------------------------------
(* rotdb.rs: the counter store *)

UPPER == <<"A", "B", "C", "D", "E", "F", "G", "H", "I", "J", "K", "L", "M",
           "N", "O", "P", "Q", "R", "S", "T", "U", "V", "W", "X", "Y", "Z">>

LOWER == <<"a", "b", "c", "d", "e", "f", "g", "h", "i", "j", "k", "l", "m",
           "n", "o", "p", "q", "r", "s", "t", "u", "v", "w", "x", "y", "z">>

to_ascii_lowercase(c) ==
  IF \E i \in 1..Len(UPPER) : UPPER[i] = c
  THEN LOWER[CHOOSE i \in 1..Len(UPPER) : UPPER[i] = c]
  ELSE c

\* RE_SEPS.replace_all(key, "."): leftmost, non-overlapping matches of (::|->)
RECURSIVE ReplaceSeps(_)
ReplaceSeps(key) ==
  IF Len(key) = 0 THEN <<>>
  ELSE IF Len(key) >= 2 /\ SubSeq(key, 1, 2) \in {<<":", ":">>, <<"-", ">">>}
  THEN <<".">> \o ReplaceSeps(SubSeq(key, 3, Len(key)))
  ELSE <<key[1]>> \o ReplaceSeps(SubSeq(key, 2, Len(key)))

\* a normalization that leaves the separators as they are
normalize_key_case_only(key) ==
  [i \in 1..Len(key) |-> to_ascii_lowercase(key[i])]

normalize_key(key) ==
  LET replaced == ReplaceSeps(key)
  IN [i \in 1..Len(replaced) |-> to_ascii_lowercase(replaced[i])]

DIGITS == <<"0", "1", "2", "3", "4", "5", "6", "7", "8", "9">>

RECURSIVE FormatNat(_)
FormatNat(n) ==
  IF n < 10 THEN <<DIGITS[n + 1]>>
  ELSE FormatNat(n \div 10) \o <<DIGITS[(n % 10) + 1]>>

(* An i64 is held at its full width.  The integers of the checker are 32  *)
(* bits wide, so a value is a sign and a magnitude of three limbs in base  *)
(* 10^9, most significant first.                                           *)

Limb == 10 ^ 9

ZeroMag == <<0, 0, 0>>

\* the i64 of a small integer n, |n| < 10^9
I64(n) == [neg |-> n < 0, mag |-> <<0, 0, IF n < 0 THEN -n ELSE n>>]

I64_MAX == [neg |-> FALSE, mag |-> <<9, 223372036, 854775807>>]

I64_MIN == [neg |-> TRUE, mag |-> <<9, 223372036, 854775808>>]

MagLeq(m, n) ==
  \/ m[1] < n[1]
  \/ m[1] = n[1] /\ m[2] < n[2]
  \/ m[1] = n[1] /\ m[2] = n[2] /\ m[3] <= n[3]

MagSucc(m) ==
  IF m[3] + 1 < Limb THEN <<m[1], m[2], m[3] + 1>>
  ELSE IF m[2] + 1 < Limb THEN <<m[1], m[2] + 1, 0>>
  ELSE <<m[1] + 1, 0, 0>>

\* for m # ZeroMag
MagPred(m) ==
  IF m[3] > 0 THEN <<m[1], m[2], m[3] - 1>>
  ELSE IF m[2] > 0 THEN <<m[1], m[2] - 1, Limb - 1>>
  ELSE <<m[1] - 1, Limb - 1, Limb - 1>>

\* v + 1 and v - 1 as integers, whether or not the result is an i64
Succ(v) ==
  IF v.neg
  THEN [neg |-> MagPred(v.mag) # ZeroMag, mag |-> MagPred(v.mag)]
  ELSE [neg |-> FALSE, mag |-> MagSucc(v.mag)]

Pred(v) ==
  IF v.neg THEN [neg |-> TRUE, mag |-> MagSucc(v.mag)]
  ELSE IF v.mag = ZeroMag THEN [neg |-> TRUE, mag |-> <<0, 0, 1>>]
  ELSE [neg |-> FALSE, mag |-> MagPred(v.mag)]

InI64(v) == MagLeq(v.mag, IF v.neg THEN I64_MIN.mag ELSE I64_MAX.mag)

\* whether v is within 10^9 of zero, and then its value as an integer
NearZero(v) == v.mag[1] = 0 /\ v.mag[2] = 0

ToInt(v) == IF v.neg THEN -v.mag[3] ELSE v.mag[3]

\* `*v += 1` and `*v -= 1` on an i64.  On overflow a build with overflow
\* checks panics before the store to *v; a build without them wraps.
AddAssign(v) ==
  IF InI64(Succ(v)) THEN {[panic |-> FALSE, value |-> Succ(v)]}
  ELSE {[panic |-> TRUE, value |-> v], [panic |-> FALSE, value |-> I64_MIN]}

SubAssign(v) ==
  IF InI64(Pred(v)) THEN {[panic |-> FALSE, value |-> Pred(v)]}
  ELSE {[panic |-> TRUE, value |-> v], [panic |-> FALSE, value |-> I64_MAX]}

\* a limb after the first one is written as nine digits
Pad9(n) ==
  [i \in 1..(9 - Len(FormatNat(n))) |-> "0"] \o FormatNat(n)

FormatMag(m) ==
  IF m[1] > 0 THEN FormatNat(m[1]) \o Pad9(m[2]) \o Pad9(m[3])
  ELSE IF m[2] > 0 THEN FormatNat(m[2]) \o Pad9(m[3])
  ELSE FormatNat(m[3])

\* a formatter that loses the sign
FormatI64NoSign(v) == FormatMag(v.mag)

\* Display for i64
FormatI64(v) == IF v.neg THEN <<"-">> \o FormatMag(v.mag) ELSE FormatMag(v.mag)

IsDigit(c) == \E i \in 1..Len(DIGITS) : DIGITS[i] = c

DigitValue(c) == (CHOOSE i \in 1..Len(DIGITS) : DIGITS[i] = c) - 1

RECURSIVE ParseNat(_, _)
ParseNat(s, acc) ==
  IF Len(s) = 0 THEN acc
  ELSE ParseNat(SubSeq(s, 2, Len(s)), acc * 10 + DigitValue(s[1]))

RECURSIVE StripZeros(_)
StripZeros(s) ==
  IF Len(s) > 1 /\ s[1] = "0" THEN StripZeros(SubSeq(s, 2, Len(s))) ELSE s

\* the magnitude of at most 19 digits without leading zeros
ParseMag(digits) ==
  LET padded == [i \in 1..(27 - Len(digits)) |-> "0"] \o digits
  IN <<ParseNat(SubSeq(padded, 1, 9), 0), ParseNat(SubSeq(padded, 10, 18), 0),
       ParseNat(SubSeq(padded, 19, 27), 0)>>

\* i64::from_str: an optional sign, then one or more digits and nothing else;
\* a number outside the i64 range is an error.
ParseI64(s) ==
  LET signed == Len(s) > 0 /\ s[1] \in {"+", "-"}
      digits == IF signed THEN SubSeq(s, 2, Len(s)) ELSE s
      negative == signed /\ s[1] = "-"
  IN IF Len(digits) = 0 \/ \E i \in 1..Len(digits) : ~IsDigit(digits[i])
     THEN [ok |-> FALSE, value |-> I64(0)]
     ELSE IF Len(StripZeros(digits)) > 19
     THEN [ok |-> FALSE, value |-> I64(0)]
     ELSE LET mag == ParseMag(StripZeros(digits))
              v == [neg |-> negative /\ mag # ZeroMag, mag |-> mag]
          IN IF InI64(v) THEN [ok |-> TRUE, value |-> v]
             ELSE [ok |-> FALSE, value |-> I64(0)]

\* BufRead::lines: split at "\n"; a line that ended in "\n" also loses a "\r"
\* before it; a last line without "\n" is yielded as it is.
RECURSIVE FileLines(_)
FileLines(bytes) ==
  IF Len(bytes) = 0 THEN <<>>
  ELSE LET pos == Position(bytes, "\n") IN
       IF pos = 0 THEN <<bytes>>
       ELSE LET raw == SubSeq(bytes, 1, pos - 1)
                text == IF Len(raw) > 0 /\ raw[Len(raw)] = "\r"
                        THEN SubSeq(raw, 1, Len(raw) - 1) ELSE raw
            IN <<text>> \o FileLines(SubSeq(bytes, pos + 1, Len(bytes)))

MapInsert(m, k, v) == [x \in DOMAIN m \cup {k} |-> IF x = k THEN v ELSE m[x]]

EmptyMap == [x \in {} |-> 0]

\* the filter_map closure and collect() of parse_zot_db
RECURSIVE CollectLines(_, _)
CollectLines(lines, m) ==
  IF Len(lines) = 0 THEN m
  ELSE LET text == lines[1]
           colon == Position(text, ":")
           tail == SubSeq(lines, 2, Len(lines))
       IN IF colon = 0 THEN CollectLines(tail, m)
          ELSE LET parsed == ParseI64(SubSeq(text, colon + 1, Len(text)))
               IN IF parsed.ok
                  THEN CollectLines(tail,
                         MapInsert(m, SubSeq(text, 1, colon - 1), parsed.value))
                  ELSE CollectLines(tail, m)

parse_zot_db(f) ==
  IF f.exists THEN [ok |-> TRUE, values |-> CollectLines(FileLines(f.bytes), EmptyMap)]
  ELSE [ok |-> FALSE, values |-> EmptyMap]

\* RotDb::new: a file that cannot be opened gives an empty store
RotDbNew(f) == parse_zot_db(f).values

value(vals, key) ==
  IF normalize_key(key) \in DOMAIN vals THEN vals[normalize_key(key)] ELSE I64(0)

\* increment and decrement: every way the call can end.  dirty is set before
\* the entry is touched; a call that panics returns nothing and leaves the
\* entry as it was.
increment(vals, key) ==
  LET k == normalize_key(key)
  IN IF k \in DOMAIN vals
     THEN {[panic |-> o.panic, values |-> MapInsert(vals, k, o.value),
            ret |-> o.value] : o \in AddAssign(vals[k])}
     ELSE {[panic |-> FALSE, values |-> MapInsert(vals, k, I64(1)),
            ret |-> I64(1)]}

decrement(vals, key) ==
  LET k == normalize_key(key)
  IN IF k \in DOMAIN vals
     THEN {[panic |-> o.panic, values |-> MapInsert(vals, k, o.value),
            ret |-> o.value] : o \in SubAssign(vals[k])}
     ELSE {[panic |-> FALSE, values |-> MapInsert(vals, k, I64(-1)),
            ret |-> I64(-1)]}

NoFile == [exists |-> FALSE, bytes |-> <<>>]

FileOf(bytes) == [exists |-> TRUE, bytes |-> bytes]

\* the orders in which `for (key, val) in &self.values` may visit the map
IterationOrders(vals) ==
  {o \in [1..Cardinality(DOMAIN vals) -> DOMAIN vals] :
     \A i, j \in DOMAIN o : i # j => o[i] # o[j]}

RECURSIVE WriteLines(_, _, _)
WriteLines(vals, order, i) ==
  IF i > Len(order) THEN <<>>
  ELSE order[i] \o <<":">> \o FormatI64(vals[order[i]]) \o <<"\n">>
         \o WriteLines(vals, order, i + 1)

\* What File::create leaves when it succeeds: the file exists and is empty.
FileCreate(f) == FileOf(<<>>)

\* RotDb::sync: every way it can end.  A write error may come after any
\* number of bytes short of the whole content has reached the file.
sync(vals, d, f) ==
  IF ~d THEN {[result |-> "clean", dirty |-> d, file |-> f]}
  ELSE {[result |-> "open_failed", dirty |-> TRUE, file |-> f]}
       \cup UNION {
         LET content == WriteLines(vals, o, 1) IN
           {[result |-> "ok", dirty |-> FALSE,
             file |-> FileOf(FileCreate(f).bytes \o content)]}
           \cup {[result |-> "write_failed", dirty |-> TRUE,
                  file |-> FileOf(FileCreate(f).bytes \o SubSeq(content, 1, n))] :
                   n \in 0..(Len(content) - 1)}
         : o \in IterationOrders(vals)}


----------------------------------------------------------------------------
(* Inputs *)

Nicks == {<<"r", "o", "t">>}

ChanNames == {<<"c">>, <<"d">>}

\* what one sock.read may return
ReadChunks ==
  { STR_PING \o <<" ", ":", "a">> \o CRLF,
    <<":", "s", " ">> \o STR_PONG \o <<" ", "r", "\n">>,
    <<"P", "I">>,
    <<"N", "G", " ", "b", "\n">> }

Keys ==
  { <<"A", ":", ":", "b">>, <<"a", "-", ">", "B">>, <<"a", ".", "b">>,
    <<"a", ":", "b">> }

InitFiles ==
  { NoFile,
    FileOf(<<"c", ":", "1", "\n", "b", "a", "d", "\n">>) }

----------------------------------------------------------------------------
(* irc_client.rs: the session *)

Dec(t) == IF t > 0 THEN t - 1 ELSE t

Joins == [i \in 1..Len(channels) |-> JoinBytes(channels[i])]

IsPong(parts) ==
  /\ Len(parts) >= 2
  /\ parts[1] # STR_PING
  /\ parts[2] = STR_PONG

IsPing(parts) == Len(parts) >= 2 /\ parts[1] = STR_PING

\* IrcClient::new, and RotDb::new on a path with no file
\* IrcClient::new has returned and run() has not been called
NotRunning ==
  /\ pc = "new"
  /\ nick \in Nicks
  /\ channels = <<>>
  /\ shutdown_recv = "empty"
  /\ ping_state = "Reset"
  /\ sock = "none"
  /\ wire = <<>>
  /\ rx = 0
  /\ chunk = <<>>
  /\ dispatched = <<>>
  /\ ping_timer = 0
  /\ save_timer = "pending"
  /\ delay_timer = 0
  /\ conn_timer = 0
  /\ probe = "none"
  /\ ev = "new"
  /\ reads = 0

\* RotDb::new has loaded one of the given files
StoreLoaded(files) ==
  /\ file \in files
  /\ values = RotDbNew(file)
  /\ dirty = FALSE
  /\ db_state = "live"
  /\ io = "none"
  /\ ret = I64(0)
  /\ mutated = {}
  /\ ops = 0

\* no function is being studied on its own
NoCall ==
  /\ arg = <<>>
  /\ res = <<>>
  /\ arg2 = <<>>
  /\ res2 = <<>>

Init == NotRunning /\ StoreLoaded({NoFile}) /\ NoCall

\* IrcClient::join, called by main before run
Join ==
  /\ ev' = "Join"
  /\ pc = "new"
  /\ Len(channels) < MaxChannels
  /\ \E c \in ChanNames : channels' = Append(channels, c)
  /\ UNCHANGED <<pc, nick, shutdown_recv, ping_state, sock, wire, rx, chunk,
                 dispatched, ping_timer, save_timer, delay_timer, conn_timer,
                 probe, reads, dbVars, pureVars>>

\* the task spawned in new(): Ctrl+C (or a failure to wait for it) sends `true`
SignalShutdown ==
  /\ ev' = "SignalShutdown"
  /\ pc \notin {"done", "exited", "panicked"}
  /\ shutdown_recv = "empty"
  /\ shutdown_recv' = "sent"
  /\ UNCHANGED <<pc, nick, channels, ping_state, sock, wire, rx, chunk,
                 dispatched, ping_timer, save_timer, delay_timer, conn_timer,
                 probe, reads, dbVars, pureVars>>

\* whether an event the suspended task waits for is ready: the task is then
\* woken and polled before a minute passes
AwaitedReady ==
  \/ pc = "select" /\ (ping_timer = 0 \/ save_timer = "due" \/ shutdown_recv = "sent")
  \/ pc = "delay" /\ (delay_timer = 0 \/ shutdown_recv = "sent")
  \/ pc = "connecting" /\ conn_timer = 0

\* a minute passes while the task is suspended
Tick ==
  /\ ev' = "Tick"
  /\ pc \in {"select", "delay", "connecting"}
  /\ ~AwaitedReady
  /\ ping_timer' = IF sock = "open" THEN Dec(ping_timer) ELSE ping_timer
  /\ delay_timer' = IF pc = "delay" THEN Dec(delay_timer) ELSE delay_timer
  /\ conn_timer' = IF pc = "connecting" THEN Dec(conn_timer) ELSE conn_timer
  /\ UNCHANGED <<pc, nick, channels, shutdown_recv, ping_state, sock, wire, rx,
                 chunk, dispatched, save_timer, probe, reads, dbVars, pureVars>>

\* DB_SAVE_INTERVAL has passed since the last due time of save_timer
SaveDue ==
  /\ ev' = "SaveDue"
  /\ pc \in {"select", "delay", "connecting"}
  /\ save_timer = "pending"
  /\ save_timer' = "due"
  /\ UNCHANGED <<pc, nick, channels, shutdown_recv, ping_state, sock, wire, rx,
                 chunk, dispatched, ping_timer, delay_timer, conn_timer,
                 probe, reads, dbVars, pureVars>>

\* connect(): its entry, up to the first await
EnterConnect(initial_delay) ==
  IF initial_delay
  THEN /\ pc' = "delay"
       /\ delay_timer' = RECONNECT_DELAY
       /\ conn_timer' = conn_timer
  ELSE /\ pc' = "connecting"
       /\ conn_timer' = TIMEOUT_DURATION
       /\ delay_timer' = delay_timer

\* run(): the interval is made and its first tick taken, then connect(false)
RunStart ==
  /\ ev' = "RunStart"
  /\ pc = "new"
  /\ save_timer' = "pending"
  /\ EnterConnect(FALSE)
  /\ UNCHANGED <<nick, channels, shutdown_recv, ping_state, sock, wire, rx,
                 chunk, dispatched, ping_timer, probe, reads, dbVars, pureVars>>

\* run() returns: its locals (socket, buffer, timers) are dropped
RunReturns ==
  /\ sock' = "none"
  /\ chunk' = <<>>
  /\ ping_timer' = 0
  /\ save_timer' = "pending"
  /\ delay_timer' = 0
  /\ conn_timer' = 0

\* reconnect_delay: the sleep wins the select
DelayElapsed ==
  /\ ev' = "DelayElapsed"
  /\ pc = "delay"
  /\ delay_timer = 0
  /\ pc' = "connecting"
  /\ conn_timer' = TIMEOUT_DURATION
  /\ UNCHANGED <<nick, channels, shutdown_recv, ping_state, sock, wire, rx,
                 chunk, dispatched, ping_timer, save_timer, delay_timer,
                 probe, reads, dbVars, pureVars>>

\* reconnect_delay that only sleeps
DelayShutdownIgnored == FALSE /\ UNCHANGED vars

\* a return from the delay that says farewell on the old socket first
DelayShutdownQuit ==
  /\ ev' = "DelayShutdown"
  /\ pc = "delay"
  /\ shutdown_recv = "sent"
  /\ shutdown_recv' = "taken"
  /\ wire' = Append(wire, QUIT_LINE)
  /\ pc' = "done"
  /\ RunReturns
  /\ UNCHANGED <<nick, channels, ping_state, rx, dispatched, probe, reads,
                 dbVars, pureVars>>

\* reconnect_delay: shutdown_recv.recv() wins; connect returns None, run returns
DelayShutdown ==
  /\ ev' = "DelayShutdown"
  /\ pc = "delay"
  /\ shutdown_recv = "sent"
  /\ shutdown_recv' = "taken"
  /\ pc' = "done"
  /\ RunReturns
  /\ UNCHANGED <<nick, channels, ping_state, wire, rx, dispatched, probe,
                 reads, dbVars, pureVars>>

\* a retry that skips reconnect_delay
AttemptFailedNoDelay ==
  /\ pc' = "connecting"
  /\ conn_timer' = TIMEOUT_DURATION
  /\ UNCHANGED <<nick, channels, shutdown_recv, ping_state, sock, wire, rx,
                 chunk, dispatched, ping_timer, save_timer, delay_timer,
                 probe, reads, dbVars, pureVars>>

\* connect(): the attempt failed, or timed out; on to reconnect_delay
AttemptFailed ==
  /\ pc' = "delay"
  /\ delay_timer' = RECONNECT_DELAY
  /\ UNCHANGED <<nick, channels, shutdown_recv, ping_state, sock, wire, rx,
                 chunk, dispatched, ping_timer, save_timer, conn_timer,
                 probe, reads, dbVars, pureVars>>

ConnectErr ==
  /\ ev' = "ConnectErr"
  /\ pc = "connecting"
  /\ AttemptFailed

ConnectTimeout ==
  /\ ev' = "ConnectTimeout"
  /\ pc = "connecting"
  /\ conn_timer = 0
  /\ AttemptFailed

\* connect() joining the channels last to first
ConnectOkReversed ==
  /\ ev' = "ConnectOk"
  /\ pc = "connecting"
  /\ sock' = "open"
  /\ wire' = <<IdentBytes(nick)>>
               \o [i \in 1..Len(channels) |->
                     JoinBytes(channels[Len(channels) + 1 - i])]
  /\ rx' = 0
  /\ dispatched' = <<>>
  /\ probe' = "none"
  /\ ping_state' = "Reset"
  /\ ping_timer' = IF sock = "none" THEN PING_INTERVAL ELSE ping_timer
  /\ pc' = "loop_top"
  /\ UNCHANGED <<nick, channels, shutdown_recv, chunk, save_timer, delay_timer,
                 conn_timer, reads, dbVars, pureVars>>

\* connect(): the socket opened; identify, join, reset the ping state and
\* return to run (which, the first time, creates ping_timer)
ConnectOk ==
  /\ ev' = "ConnectOk"
  /\ pc = "connecting"
  /\ sock' = "open"
  /\ wire' = <<IdentBytes(nick)>> \o Joins
  /\ rx' = 0
  /\ dispatched' = <<>>
  /\ probe' = "none"
  /\ ping_state' = "Reset"
  /\ ping_timer' = IF sock = "none" THEN PING_INTERVAL ELSE ping_timer
  /\ pc' = "loop_top"
  /\ UNCHANGED <<nick, channels, shutdown_recv, chunk, save_timer, delay_timer,
                 conn_timer, reads, dbVars, pureVars>>

\* a loop top that does not look at ping_state
LoopTopNoRearm ==
  /\ ev' = "LoopTop"
  /\ pc = "loop_top"
  /\ pc' = "select"
  /\ UNCHANGED <<nick, channels, shutdown_recv, ping_state, sock, wire, rx,
                 chunk, dispatched, ping_timer, save_timer, delay_timer,
                 conn_timer, probe, reads, dbVars, pureVars>>

\* run(): the top of the loop
LoopTop ==
  /\ ev' = "LoopTop"
  /\ pc = "loop_top"
  /\ IF ping_state = "Reset"
     THEN ping_timer' = PING_INTERVAL /\ ping_state' = "Waiting"
     ELSE UNCHANGED <<ping_timer, ping_state>>
  /\ pc' = "select"
  /\ UNCHANGED <<nick, channels, shutdown_recv, sock, wire, rx, chunk,
                 dispatched, save_timer, delay_timer, conn_timer, probe,
                 reads, dbVars, pureVars>>

\* connect(false) where run() calls connect(true)
ReconnectNoDelay ==
  /\ EnterConnect(FALSE)
  /\ UNCHANGED <<nick, channels, shutdown_recv, ping_state, sock, wire, rx,
                 chunk, dispatched, ping_timer, save_timer, probe, reads,
                 dbVars, pureVars>>

\* the three places of run() that call connect(true)
Reconnect ==
  /\ EnterConnect(TRUE)
  /\ UNCHANGED <<nick, channels, shutdown_recv, ping_state, sock, wire, rx,
                 chunk, dispatched, ping_timer, save_timer, probe, reads,
                 dbVars, pureVars>>

\* select arm: sock.read gave Ok(0)
ReadZero ==
  /\ ev' = "ReadZero"
  /\ pc = "select"
  /\ Reconnect

\* select arm: sock.read gave Err
ReadErr ==
  /\ ev' = "ReadErr"
  /\ pc = "select"
  /\ Reconnect

\* a read arm that hands only the new bytes to process_lines
ReadBytesNoCarry(c) ==
  /\ pc = "select"
  /\ LET r == process_lines(c, ping_state, wire, <<>>) IN
       /\ chunk' = r.chunk
       /\ ping_state' = r.ping_state
       /\ wire' = r.wire
       /\ dispatched' = r.dispatched
       /\ probe' = IF probe = "sent" /\ \E i \in 1..Len(r.dispatched) :
                                             IsPong(r.dispatched[i])
                    THEN "answered" ELSE probe
  /\ rx' = rx + 1
  /\ pc' = "loop_top"
  /\ UNCHANGED <<nick, channels, shutdown_recv, sock, ping_timer, save_timer,
                 delay_timer, conn_timer, dbVars>>

\* select arm: sock.read gave Ok(n), n > 0, the bytes read being c
ReadBytes(c) ==
  /\ pc = "select"
  /\ LET r == process_lines(chunk \o c, ping_state, wire, <<>>) IN
       /\ chunk' = r.chunk
       /\ ping_state' = r.ping_state
       /\ wire' = r.wire
       /\ dispatched' = r.dispatched
       /\ probe' = IF probe = "sent" /\ \E i \in 1..Len(r.dispatched) :
                                             IsPong(r.dispatched[i])
                    THEN "answered" ELSE probe
  /\ rx' = rx + 1
  /\ pc' = "loop_top"
  /\ UNCHANGED <<nick, channels, shutdown_recv, sock, ping_timer, save_timer,
                 delay_timer, conn_timer, dbVars>>

ReadData ==
  /\ ev' = "ReadData"
  /\ reads < MaxReads
  /\ reads' = reads + 1
  /\ \E c \in ReadChunks : ReadBytes(c)
  /\ UNCHANGED pureVars

\* a ping timeout that ends the run instead of reconnecting
PingTimerFatal ==
  /\ ev' = "PingTimer"
  /\ pc = "select"
  /\ ping_timer = 0
  /\ CASE ping_state = "Waiting" ->
            /\ wire' = Append(wire, PING_PROBE)
            /\ ping_state' = "PingPending"
            /\ ping_timer' = TIMEOUT_DURATION
            /\ probe' = "sent"
            /\ pc' = "loop_top"
       [] OTHER ->
            /\ pc' = "done"
            /\ UNCHANGED <<wire, ping_state, ping_timer, probe>>
  /\ UNCHANGED <<nick, channels, shutdown_recv, sock, rx, chunk, dispatched,
                 save_timer, delay_timer, conn_timer, reads, dbVars, pureVars>>

\* select arm: ping_timer is due
PingTimer ==
  /\ ev' = "PingTimer"
  /\ pc = "select"
  /\ ping_timer = 0
  /\ CASE ping_state = "Waiting" ->
            /\ wire' = Append(wire, PING_PROBE)
            /\ ping_state' = "PingPending"
            /\ ping_timer' = TIMEOUT_DURATION
            /\ probe' = "sent"
            /\ pc' = "loop_top"
            /\ UNCHANGED <<delay_timer, conn_timer>>
       [] ping_state = "PingPending" ->
            /\ EnterConnect(TRUE)
            /\ UNCHANGED <<wire, ping_state, ping_timer, probe>>
       [] OTHER ->
            /\ pc' = "panicked"
            /\ UNCHANGED <<wire, ping_state, ping_timer, probe, delay_timer,
                           conn_timer>>
  /\ UNCHANGED <<nick, channels, shutdown_recv, sock, rx, chunk, dispatched,
                 save_timer, reads, dbVars, pureVars>>

\* select arm: save_timer ticks; the next tick is due one period after the
\* due time of this one, which has passed already if the task was held up
SaveTick ==
  /\ ev' = "SaveTick"
  /\ pc = "select"
  /\ save_timer = "due"
  /\ save_timer' \in {"pending", "due"}
  /\ \E o \in sync(values, dirty, file) :
       /\ dirty' = o.dirty
       /\ file' = o.file
       /\ io' = o.result
  /\ pc' = "loop_top"
  /\ UNCHANGED <<nick, channels, shutdown_recv, ping_state, sock, wire, rx,
                 chunk, dispatched, ping_timer, delay_timer, conn_timer,
                 probe, reads, values, db_state, ret, mutated, ops, pureVars>>

\* select arm: shutdown_recv.recv(); break, write the farewell, return
LoopShutdown ==
  /\ ev' = "LoopShutdown"
  /\ pc = "select"
  /\ shutdown_recv = "sent"
  /\ shutdown_recv' = "taken"
  /\ wire' = Append(wire, QUIT_LINE)
  /\ pc' = "done"
  /\ RunReturns
  /\ UNCHANGED <<nick, channels, ping_state, rx, dispatched, probe, reads,
                 dbVars, pureVars>>

\* main returns: the client and its RotDb are dropped
Exit ==
  /\ ev' = "Exit"
  /\ pc = "done"
  /\ pc' = "exited"
  /\ \E o \in sync(values, dirty, file) :
       /\ dirty' = o.dirty
       /\ file' = o.file
       /\ io' = o.result
  /\ db_state' = "dropped"
  /\ UNCHANGED <<nick, channels, shutdown_recv, ping_state, sock, wire, rx,
                 chunk, dispatched, ping_timer, save_timer, delay_timer,
                 conn_timer, probe, reads, values, ret, mutated, ops, pureVars>>

Next ==
  \/ Join
  \/ SignalShutdown
  \/ Tick
  \/ SaveDue
  \/ RunStart
  \/ DelayElapsed
  \/ DelayShutdown
  \/ ConnectErr
  \/ ConnectTimeout
  \/ ConnectOk
  \/ LoopTop
  \/ ReadZero
  \/ ReadErr
  \/ ReadData
  \/ PingTimer
  \/ SaveTick
  \/ LoopShutdown
  \/ Exit

Spec == Init /\ [][Next]_vars


----------------------------------------------------------------------------
(* Properties of the session *)

ShutdownTaken == LoopShutdown \/ DelayShutdown

\* the places of wire that hold the farewell
Quits == {j \in 1..Len(wire) : wire[j] = QUIT_LINE}

FailureStep ==
  \/ ev' \in {"ConnectErr", "ConnectTimeout", "ReadZero", "ReadErr"}
  \/ ev' = "PingTimer" /\ ping_state = "PingPending"

\* C1: an attempt runs under the 60s timeout; every failed attempt (error or
\* timeout) enters one reconnect delay of 60s; the delay is not re-armed and
\* the next attempt starts only when it has elapsed, which is then always
\* possible (no cap on attempts); a shutdown taken in the delay ends the run,
\* and a run that has ended makes no further attempt.
C1_ConnectRetry ==
  /\ [](pc = "delay" /\ delay_timer = 0 => ENABLED DelayElapsed)
  /\ [][ /\ (pc' = "connecting" /\ ev' \in {"RunStart", "DelayElapsed"}
               => conn_timer' = TIMEOUT_DURATION)
         /\ (ev' = "ConnectTimeout" => conn_timer = 0)
         /\ (ev' \in {"ConnectErr", "ConnectTimeout"}
               => pc' = "delay" /\ delay_timer' = RECONNECT_DELAY)
         /\ (pc = "delay" => pc' \in {"delay", "connecting", "done"})
         /\ (pc = "delay" /\ pc' = "delay" => delay_timer' <= delay_timer)
         /\ (pc = "delay" /\ pc' = "connecting"
               => delay_timer = 0 /\ ev' = "DelayElapsed")
         /\ (pc = "delay" /\ shutdown_recv = "sent" /\ delay_timer > 0
               => pc' = "done" \/ (pc' = "delay" /\ delay_timer' = delay_timer))
         /\ (ev' = "DelayShutdown" => pc' = "done")
         /\ (pc \in {"done", "exited"} => pc' \in {"done", "exited"})
       ]_vars

\* a second attempt of the startup connect sequence, after a failure and a delay
C1_Witness == pc = "connecting" /\ ev = "DelayElapsed" /\ sock = "none"

\* C2: the sub-state is PingPending exactly while a probe was sent on this
\* socket and no PONG line has been dispatched since; the ping timer re-runs
\* the connect sequence exactly when it fires in PingPending; a dispatched
\* PONG line sets Reset, and the top of the loop then sets Waiting with a
\* fresh 5-minute deadline.
C2_Keepalive ==
  /\ []((probe = "sent") <=> (ping_state = "PingPending"))
  /\ [][ /\ (ev' = "PingTimer"
               => /\ ping_timer = 0
                  /\ (pc' = "delay") <=> (ping_state = "PingPending"))
         /\ (ev' = "PingTimer" /\ pc' = "delay"
               => probe = "sent" /\ delay_timer' = RECONNECT_DELAY)
         /\ (ev' = "PingTimer" /\ ping_state = "Waiting"
               => /\ wire' = Append(wire, PING_PROBE)
                  /\ ping_state' = "PingPending"
                  /\ ping_timer' = TIMEOUT_DURATION)
         /\ (ev' = "ReadData"
               /\ (\E i \in 1..Len(dispatched') :
                     /\ Len(dispatched'[i]) >= 2
                     /\ dispatched'[i][1] # STR_PING
                     /\ dispatched'[i][2] = STR_PONG)
               => ping_state' = "Reset" /\ pc' = "loop_top")
         /\ (ev' = "LoopTop" /\ ping_state = "Reset"
               => /\ ping_state' = "Waiting"
                  /\ ping_timer' = PING_INTERVAL
                  /\ pc' = "select")
         /\ (probe = "sent" /\ probe' = "answered" => pc' # "delay")
       ]_vars

\* the keepalive deadline passed with the probe unanswered: reconnecting
C2_Witness == pc = "delay" /\ ev = "PingTimer" /\ probe = "sent"

\* C3: after a read, every dispatched line that is a PING with a target has
\* its reply PONG <target> CRLF among the writes on the socket.
C3_PongReply ==
  ev = "ReadData" =>
    \A i \in 1..Len(dispatched) :
      IsPing(dispatched[i]) =>
        \E j \in 1..Len(wire) : wire[j] = PongBytes(dispatched[i][2])

\* C4: when connect returns a socket, the writes on it are the identification
\* (NICK and USER of the nick) and then one JOIN per channel in the order of
\* the join calls, nothing has been read from it, and the sub-state is Reset;
\* whatever is read later comes after those writes.
C4_Identify ==
  LET hello == <<IdentBytes(nick)>>
                 \o [i \in 1..Len(channels) |-> JoinBytes(channels[i])]
  IN /\ (ev = "ConnectOk" =>
           /\ wire = hello
           /\ rx = 0
           /\ ping_state = "Reset"
           /\ sock = "open"
           /\ pc = "loop_top")
     /\ (rx > 0 =>
           /\ Len(wire) >= Len(hello)
           /\ SubSeq(wire, 1, Len(hello)) = hello)

\* a reconnect with two different channels configured
C4_Witness ==
  /\ ev = "ConnectOk"
  /\ reads > 0
  /\ Len(channels) = 2
  /\ channels[1] # channels[2]

\* C5: a disconnection found by the loop (zero-byte read, read error, ping
\* timeout) enters the 60s delay, and the attempt that follows starts only
\* when the delay has elapsed; the startup sequence starts its attempt at once.
C5_ReconnectDelay ==
  [][ /\ (ev' \in {"ReadZero", "ReadErr"}
            \/ (ev' = "PingTimer" /\ ping_state = "PingPending")
            => pc = "select" /\ pc' = "delay" /\ delay_timer' = RECONNECT_DELAY)
      /\ (sock = "open" /\ pc # "connecting" /\ pc' = "connecting"
            => pc = "delay" /\ delay_timer = 0)
      /\ (ev' = "RunStart" => pc' = "connecting" /\ conn_timer' = TIMEOUT_DURATION)
    ]_vars

\* the first attempt of a reconnect, made after the delay
C5_Witness == pc = "connecting" /\ ev = "DelayElapsed" /\ sock = "open"

\* C6: every connectivity failure leads into the delay-then-connect step,
\* from which the run can always go on; the run never panics, and it returns
\* only by taking the shutdown message.
C6_NeverFatal ==
  /\ [](pc # "panicked")
  /\ [](pc \in {"done", "exited"} => shutdown_recv = "taken")
  /\ [](pc = "delay" => ENABLED (Tick \/ DelayElapsed \/ DelayShutdown))
  /\ [][ /\ (FailureStep => pc' = "delay")
         /\ (pc # "done" /\ pc' = "done"
               => shutdown_recv = "sent" /\ shutdown_recv' = "taken")
       ]_vars

\* connected again after an earlier connection was lost
C6_Witness == ev = "ConnectOk" /\ reads > 0 /\ pc = "loop_top"

\* C7 as stated: whenever the task is suspended and the shutdown message is
\* queued, the shutdown can be taken there.
C7_AllCancellable ==
  pc \in {"select", "delay", "connecting"} /\ shutdown_recv = "sent"
    => ENABLED ShutdownTaken

\* C7, amended: the shutdown can be taken in the event loop's race and in
\* the reconnect delay; a connect attempt in flight does not take it and
\* ends only by its own result or its 60s timeout.
C7_Cancellable ==
  /\ (pc \in {"select", "delay"} /\ shutdown_recv = "sent" => ENABLED ShutdownTaken)
  /\ (pc = "connecting" =>
        /\ ~ENABLED ShutdownTaken
        /\ conn_timer \in 0..TIMEOUT_DURATION
        /\ (conn_timer = 0 => ~ENABLED Tick /\ ENABLED ConnectTimeout))

\* the shutdown message is queued while an attempt is in flight
C7_Witness == pc = "connecting" /\ shutdown_recv = "sent"

\* C8: a shutdown taken in the loop writes QUIT on the held socket, once and
\* as the last write of the run; a shutdown taken in the reconnect delay
\* writes nothing.
C8_Farewell ==
  /\ [](ev = "LoopShutdown" =>
          pc = "done" /\ Quits = {Len(wire)} /\ Len(wire) > 0)
  /\ [](ev = "DelayShutdown" => pc = "done" /\ Quits = {})
  /\ [][ /\ (ev' = "LoopShutdown" =>
               sock = "open" /\ wire' = Append(wire, QUIT_LINE))
         /\ (ev' = "DelayShutdown" => wire' = wire)
         /\ (pc \in {"done", "exited"} => wire' = wire)
       ]_vars

\* the loop took the shutdown on a connection
C8_Witness == ev = "LoopShutdown" /\ pc = "done" /\ Len(wire) >= 2

----------------------------------------------------------------------------
(* The store on its own: the calls of rotdb.rs in any order *)

\* RotDb::new on a path that may hold a file; no session is running
InitDb == NotRunning /\ StoreLoaded(InitFiles) /\ NoCall

\* one call of value, increment or decrement with the key k
DbValueOf(k) ==
  /\ db_state = "live"
  /\ ret' = value(values, k)
  /\ io' = "none"
  /\ UNCHANGED <<values, dirty, file, db_state, mutated, ops, sessionVars,
                 pureVars>>

DbIncrementOf(k) ==
  /\ db_state = "live"
  /\ ops < MaxOps
  /\ ops' = ops + 1
  /\ ~NearZero(value(values, k)) \/ ToInt(value(values, k)) < MaxVal
  /\ dirty' = TRUE
  /\ \E o \in increment(values, k) :
       /\ values' = o.values
       /\ ret' = IF o.panic THEN ret ELSE o.ret
       /\ db_state' = IF o.panic THEN "unwinding" ELSE db_state
  /\ mutated' = mutated \cup {k}
  /\ io' = "none"
  /\ UNCHANGED <<file, sessionVars, pureVars>>

DbDecrementOf(k) ==
  /\ db_state = "live"
  /\ ops < MaxOps
  /\ ops' = ops + 1
  /\ ~NearZero(value(values, k)) \/ ToInt(value(values, k)) > -MaxVal
  /\ dirty' = TRUE
  /\ \E o \in decrement(values, k) :
       /\ values' = o.values
       /\ ret' = IF o.panic THEN ret ELSE o.ret
       /\ db_state' = IF o.panic THEN "unwinding" ELSE db_state
  /\ mutated' = mutated \cup {k}
  /\ io' = "none"
  /\ UNCHANGED <<file, sessionVars, pureVars>>

DbValue == \E k \in Keys : DbValueOf(k)

DbIncrement == \E k \in Keys : DbIncrementOf(k)

DbDecrement == \E k \in Keys : DbDecrementOf(k)

DbSync ==
  /\ db_state = "live"
  /\ \E o \in sync(values, dirty, file) :
       /\ dirty' = o.dirty
       /\ file' = o.file
       /\ io' = o.result
  /\ UNCHANGED <<values, db_state, ret, mutated, ops, sessionVars, pureVars>>

\* a release that does not flush
DbDropNoFlush ==
  /\ db_state \in {"live", "unwinding"}
  /\ db_state' = "dropped"
  /\ io' = "clean"
  /\ UNCHANGED <<values, dirty, file, ret, mutated, ops, sessionVars, pureVars>>

\* Drop for RotDb, at the end of the owner's scope or while a panic unwinds
DbDrop ==
  /\ db_state \in {"live", "unwinding"}
  /\ \E o \in sync(values, dirty, file) :
       /\ dirty' = o.dirty
       /\ file' = o.file
       /\ io' = o.result
  /\ db_state' = "dropped"
  /\ UNCHANGED <<values, ret, mutated, ops, sessionVars, pureVars>>

\* RotDb::new on the same path, after the previous store was released
DbNew ==
  /\ db_state = "dropped"
  /\ values' = RotDbNew(file)
  /\ dirty' = FALSE
  /\ db_state' = "live"
  /\ io' = "loaded"
  /\ mutated' = {}
  /\ UNCHANGED <<file, ret, ops, sessionVars, pureVars>>

NextDb ==
  \/ DbValue
  \/ DbIncrement
  \/ DbDecrement
  \/ DbSync
  \/ DbDrop
  \/ DbNew

SpecDb == InitDb /\ [][NextDb]_vars

\* files that hold the largest and the smallest i64
LimitFiles ==
  { FileOf(<<"a", ".", "b", ":", "9", "2", "2", "3", "3", "7", "2", "0", "3",
             "6", "8", "5", "4", "7", "7", "5", "8", "0", "7", "\n">>),
    FileOf(<<"a", ".", "b", ":", "-", "9", "2", "2", "3", "3", "7", "2", "0",
             "3", "6", "8", "5", "4", "7", "7", "5", "8", "0", "8", "\n">>) }

\* RotDb::new on a file of LimitFiles; no session is running
InitDbLimit == NotRunning /\ StoreLoaded(LimitFiles) /\ NoCall

SpecDbLimit == InitDbLimit /\ [][NextDb]_vars


----------------------------------------------------------------------------
(* Properties of the store *)

\* a key whose normalized form the one-line `key:value` format can hold
Storable(k) ==
  \A i \in 1..Len(normalize_key(k)) : normalize_key(k)[i] \notin {":", "\n"}

\* the step in which a fresh store is loaded after the old one was released
\* with nothing left to flush
LoadAfterFlush == db_state = "dropped" /\ db_state' = "live" /\ ~dirty

C10_FailedFlush ==
  [][ /\ (io' \in {"open_failed", "write_failed"} => dirty' /\ file' = file)
      /\ (io' = "ok" => ~dirty')
    ]_vars

\* C11: value returns the stored value, or 0 for a key that is absent, and
\* changes neither the map nor dirty; increment and decrement return the prior
\* value (0 when absent) plus 1 and minus 1, that value is the one stored,
\* no other key changes, and dirty is set.
C11_StoreOps ==
  [][\A k \in Keys :
       /\ DbValueOf(k) =>
            /\ ret' = (IF normalize_key(k) \in DOMAIN values
                       THEN values[normalize_key(k)] ELSE I64(0))
            /\ values' = values
            /\ dirty' = dirty
       /\ DbIncrementOf(k) =>
            /\ ret' = Succ(value(values, k))
            /\ value(values', k) = ret'
            /\ \A j \in DOMAIN values' \ {normalize_key(k)} :
                 j \in DOMAIN values /\ values'[j] = values[j]
            /\ dirty'
       /\ DbDecrementOf(k) =>
            /\ ret' = Pred(value(values, k))
            /\ value(values', k) = ret'
            /\ \A j \in DOMAIN values' \ {normalize_key(k)} :
                 j \in DOMAIN values /\ values'[j] = values[j]
            /\ dirty'
    ]_vars

----------------------------------------------------------------------------
(* normalize_key on its own, and the store calls under two spellings *)

MaxKey == 4

NormAlphabet == {"a", "B", ":", "-", ">", "."}

\* every byte string of at most n bytes over the alphabet
StringsUpTo(alphabet, n) == UNION {[1..len -> alphabet] : len \in 0..n}

NormKeys == StringsUpTo(NormAlphabet, MaxKey)

IsAlpha(c) == \E i \in 1..Len(UPPER) : c = UPPER[i] \/ c = LOWER[i]

IsIdentStart(c) == IsAlpha(c) \/ c = "_"

IsIdentChar(c) == IsIdentStart(c) \/ IsDigit(c)

Separators == {<<":", ":">>, <<"-", ">">>, <<".">>}

\* the last position of the run of identifier characters that starts at i
RECURSIVE RunEnd(_, _)
RunEnd(k, i) ==
  IF i < Len(k) /\ IsIdentChar(k[i + 1]) THEN RunEnd(k, i + 1) ELSE i

\* The segments and separators of a key that is one or more identifier
\* segments joined by separators; ok is FALSE for any other key.
RECURSIVE ShapeFrom(_, _, _, _)
ShapeFrom(k, i, segs, seps) ==
  IF i > Len(k) \/ ~IsIdentStart(k[i])
  THEN [ok |-> FALSE, segs |-> <<>>, seps |-> <<>>]
  ELSE LET e == RunEnd(k, i)
           found == Append(segs, SubSeq(k, i, e))
       IN IF e = Len(k) THEN [ok |-> TRUE, segs |-> found, seps |-> seps]
          ELSE IF k[e + 1] = "."
          THEN ShapeFrom(k, e + 2, found, Append(seps, <<".">>))
          ELSE IF e + 2 <= Len(k) /\ SubSeq(k, e + 1, e + 2) \in Separators
          THEN ShapeFrom(k, e + 3, found, Append(seps, SubSeq(k, e + 1, e + 2)))
          ELSE [ok |-> FALSE, segs |-> <<>>, seps |-> <<>>]

Shape(k) == ShapeFrom(k, 1, <<>>, <<>>)

SameUpToCase(a, b) ==
  /\ Len(a) = Len(b)
  /\ \A j \in 1..Len(a) :
       a[j] = b[j] \/ \E n \in 1..Len(UPPER) : {a[j], b[j]} = {UPPER[n], LOWER[n]}

\* two keys that differ only in letter case or in the separators they use
Respelt(k1, k2) ==
  LET s1 == Shape(k1)
      s2 == Shape(k2)
  IN /\ s1.ok /\ s2.ok
     /\ Len(s1.segs) = Len(s2.segs)
     /\ \A i \in 1..Len(s1.segs) : SameUpToCase(s1.segs[i], s2.segs[i])

OtherCase(c) ==
  IF \E n \in 1..Len(UPPER) : c = UPPER[n]
  THEN LOWER[CHOOSE n \in 1..Len(UPPER) : c = UPPER[n]]
  ELSE IF \E n \in 1..Len(LOWER) : c = LOWER[n]
  THEN UPPER[CHOOSE n \in 1..Len(LOWER) : c = LOWER[n]]
  ELSE c

RECURSIVE Spell(_, _, _)
Spell(segs, seps, i) ==
  IF i = Len(segs) THEN segs[i]
  ELSE segs[i] \o seps[i] \o Spell(segs, seps, i + 1)

\* the other spellings of a key: the letters of any of its segments in the
\* other case, any of the separators at each join
Respellings(k) ==
  LET s == Shape(k) IN
  IF ~s.ok THEN {}
  ELSE { Spell([i \in 1..Len(s.segs) |->
                  IF i \in flipped
                  THEN [j \in 1..Len(s.segs[i]) |-> OtherCase(s.segs[i][j])]
                  ELSE s.segs[i]],
               seps, 1) :
           flipped \in SUBSET (1..Len(s.segs)),
           seps \in [1..Len(s.seps) -> Separators] }

InitNorm ==
  /\ NotRunning
  /\ StoreLoaded({NoFile})
  /\ arg \in NormKeys
  /\ res = <<>>
  /\ arg2 = <<>>
  /\ res2 = <<>>

\* normalize_key(arg)
Normalize ==
  /\ res = <<>>
  /\ res' = <<normalize_key(arg)>>
  /\ UNCHANGED <<arg, arg2, res2, sessionVars, dbVars>>

\* normalize_key applied to its own result
Renormalize ==
  /\ res # <<>> /\ res2 = <<>>
  /\ arg2' = res[1]
  /\ res2' = <<normalize_key(arg2')>>
  /\ UNCHANGED <<arg, res, sessionVars, dbVars>>

\* normalize_key applied to another spelling of arg
Respell ==
  /\ res # <<>> /\ res2 = <<>>
  /\ \E k \in Respellings(arg) :
       /\ arg2' = k
       /\ res2' = <<normalize_key(k)>>
  /\ UNCHANGED <<arg, res, sessionVars, dbVars>>

\* the store calls, with either of the two spellings
NormCall ==
  /\ res2 # <<>> /\ Respelt(arg, arg2)
  /\ \E k \in {arg, arg2} : DbValueOf(k) \/ DbIncrementOf(k) \/ DbDecrementOf(k)

NextNorm ==
  \/ Normalize
  \/ Renormalize
  \/ Respell
  \/ NormCall

SpecNorm == InitNorm /\ [][NextNorm]_vars

\* C12: normalization is idempotent, and two keys that differ only in letter
\* case or in the separators they use (::, -> or .) normalize to the same
\* key, so that value, increment and decrement address one counter for both.
C12_OneCounter ==
  /\ (res # <<>> /\ res2 # <<>> /\ arg2 = res[1]) => res2 = res
  /\ (res # <<>> /\ res2 # <<>> /\ Respelt(arg, arg2)) =>
       /\ res2 = res
       /\ value(values, arg) = value(values, arg2)
       /\ Cardinality(DOMAIN values) <= 1

\* a counter reached under one spelling and changed under another one
C12_Witness ==
  /\ arg = <<"a", ":", ":", "B">>
  /\ arg2 = <<"A", "-", ">", "b">>
  /\ mutated = {arg, arg2}
  /\ ops = 2
  /\ DOMAIN values = {<<"a", ".", "b">>}
  /\ value(values, arg2) = I64(0) /\ ret = I64(0)

----------------------------------------------------------------------------
(* Release of the store *)

\* the step in which the store is released
ReleaseStep == db_state # "dropped" /\ db_state' = "dropped"

\* the file holds the line `key:value` for the counter of k
HoldsCounter(f, vals, k) ==
  \E i \in 1..Len(FileLines(f.bytes)) :
    FileLines(f.bytes)[i] = normalize_key(k) \o <<":">> \o FormatI64(value(vals, k))

\* C13: a store released with dirty set is flushed, whether it is released
\* at the end of its scope or by a panic; when the release leaves no write
\* outstanding, the file holds every counter mutated before the release.
C13_ReleaseFlush ==
  [][ReleaseStep =>
       /\ dirty => io' \in {"ok", "open_failed", "write_failed"}
       /\ io' \in {"ok", "clean"} =>
            /\ ~dirty'
            /\ \A k \in mutated : HoldsCounter(file', values, k)
    ]_vars

\* a store released by the panic of increment at i64::MAX, flushed on the way
C13_Witness ==
  /\ db_state = "dropped"
  /\ io = "ok"
  /\ ops = 1
  /\ mutated = {<<"a", "-", ">", "B">>}
  /\ values = (<<"a", ".", "b">> :> I64_MAX)
  /\ file.bytes = <<"a", ".", "b", ":">> \o FormatI64(I64_MAX) \o <<"\n">>

----------------------------------------------------------------------------
(* line_parse.rs: the command parser *)

\* ParsedLine
Nothing == [kind |-> "Nothing", ident |-> <<>>]

Increment(ident) == [kind |-> "Increment", ident |-> ident]

Decrement(ident) == [kind |-> "Decrement", ident |-> ident]

Query(ident) == [kind |-> "Query", ident |-> ident]

parsed_from(op, ident) ==
  CASE op = <<"+", "+">> -> Increment(ident)
    [] op = <<"-", "-">> -> Decrement(ident)
    [] op = <<"?">> -> Query(ident)
    [] OTHER -> Nothing

\* \s of the regex crate, for the bytes the model uses
IsSpace(c) == c \in {" ", "\t", "\n", "\f", "\r"}

\* RE_CLEAN, first alternative, from the byte after `/*`.  (?:[^/]|/[^*])* is
\* greedy and has one way to go on at each byte: p runs over the places it
\* can stop, and the match ends at the last of them where `*/` follows.
\* The result is the position of the closing `/`, or 0 when none matches.
RECURSIVE BlockEnd(_, _, _)
BlockEnd(s, p, best) ==
  LET here == IF p < Len(s) /\ s[p] = "*" /\ s[p + 1] = "/" THEN p + 1 ELSE best
  IN IF p > Len(s) THEN here
     ELSE IF s[p] # "/" THEN BlockEnd(s, p + 1, here)
     ELSE IF p < Len(s) /\ s[p + 1] # "*" THEN BlockEnd(s, p + 2, here)
     ELSE here

\* RE_CLEAN, second alternative: `.` matches any byte but a line feed
RECURSIVE LineCommentEnd(_, _)
LineCommentEnd(s, p) ==
  IF p <= Len(s) /\ s[p] # "\n" THEN LineCommentEnd(s, p + 1) ELSE p - 1

\* a cleaner that knows block comments only
RECURSIVE CleanBlocksOnly(_, _)
CleanBlocksOnly(s, i) ==
  IF i > Len(s) THEN <<>>
  ELSE IF i < Len(s) /\ s[i] = "/" /\ s[i + 1] = "*" /\ BlockEnd(s, i + 2, 0) > 0
  THEN CleanBlocksOnly(s, BlockEnd(s, i + 2, 0) + 1)
  ELSE <<s[i]>> \o CleanBlocksOnly(s, i + 1)

\* RE_CLEAN.replace_all(line, ""): leftmost matches, one after the other
RECURSIVE Clean(_, _)
Clean(s, i) ==
  IF i > Len(s) THEN <<>>
  ELSE IF i < Len(s) /\ s[i] = "/" /\ s[i + 1] = "*" /\ BlockEnd(s, i + 2, 0) > 0
  THEN Clean(s, BlockEnd(s, i + 2, 0) + 1)
  ELSE IF i < Len(s) /\ s[i] = "/" /\ s[i + 1] = "/"
  THEN Clean(s, LineCommentEnd(s, i + 2) + 1)
  ELSE <<s[i]>> \o Clean(s, i + 1)

\* \s* from position i: the first position that holds no white space
RECURSIVE SkipSpace(_, _)
SkipSpace(s, i) ==
  IF i <= Len(s) /\ IsSpace(s[i]) THEN SkipSpace(s, i + 1) ELSE i

\* the bytes w stand at position i of s
StandsAt(s, i, w) ==
  i + Len(w) - 1 <= Len(s) /\ SubSeq(s, i, i + Len(w) - 1) = w

\* the operator group at position i: the first alternative that matches
OpAt(s, i, alts) ==
  IF \E n \in 1..Len(alts) : StandsAt(s, i, alts[n])
  THEN alts[CHOOSE n \in 1..Len(alts) :
              /\ StandsAt(s, i, alts[n])
              /\ \A m \in 1..(n - 1) : ~StandsAt(s, i, alts[m])]
  ELSE <<>>

\* (?:\.|->|::) at position i: its length, or 0
SepLen(s, i) ==
  IF i <= Len(s) /\ s[i] = "." THEN 1
  ELSE IF i < Len(s) /\ SubSeq(s, i, i + 1) \in {<<"-", ">">>, <<":", ":">>} THEN 2
  ELSE 0

\* (?:(?:\.|->|::)[A-Za-z_][A-Za-z0-9_]*)* after a segment that ends at e
RECURSIVE MoreSegments(_, _)
MoreSegments(s, e) ==
  LET n == SepLen(s, e + 1)
  IN IF n > 0 /\ e + n + 1 <= Len(s) /\ IsIdentStart(s[e + n + 1])
     THEN MoreSegments(s, RunEnd(s, e + n + 1))
     ELSE e

\* the identifier group at position i: its last position, or 0
IdentEnd(s, i) ==
  IF i <= Len(s) /\ IsIdentStart(s[i]) THEN MoreSegments(s, RunEnd(s, i)) ELSE 0

\* [\s;]*$ from position i
TrailOk(s, i) == \A j \in i..Len(s) : IsSpace(s[j]) \/ s[j] = ";"

NoCaptures == [ok |-> FALSE, op |-> <<>>, ident |-> <<>>]

\* RE_PREOP.captures(clean)
PreCaptures(clean) ==
  LET at == SkipSpace(clean, 1)
      op == OpAt(clean, at, << <<"+", "+">>, <<"-", "-">>, <<"?">> >>)
      from == SkipSpace(clean, at + Len(op))
      to == IdentEnd(clean, from)
  IN IF op # <<>> /\ to > 0 /\ TrailOk(clean, to + 1)
     THEN [ok |-> TRUE, op |-> op, ident |-> SubSeq(clean, from, to)]
     ELSE NoCaptures

\* RE_POSTOP with `?` accepted as an operator
PostCapturesWithQuery(clean) ==
  LET from == SkipSpace(clean, 1)
      to == IdentEnd(clean, from)
      at == SkipSpace(clean, to + 1)
      op == OpAt(clean, at, << <<"+", "+">>, <<"-", "-">>, <<"?">> >>)
  IN IF to > 0 /\ op # <<>> /\ TrailOk(clean, at + Len(op))
     THEN [ok |-> TRUE, op |-> op, ident |-> SubSeq(clean, from, to)]
     ELSE NoCaptures

\* RE_POSTOP.captures(clean)
PostCaptures(clean) ==
  LET from == SkipSpace(clean, 1)
      to == IdentEnd(clean, from)
      at == SkipSpace(clean, to + 1)
      op == OpAt(clean, at, << <<"+", "+">>, <<"-", "-">> >>)
  IN IF to > 0 /\ op # <<>> /\ TrailOk(clean, at + Len(op))
     THEN [ok |-> TRUE, op |-> op, ident |-> SubSeq(clean, from, to)]
     ELSE NoCaptures

parse_line(line) ==
  LET clean == Clean(line, 1)
      pre_caps == PreCaptures(clean)
      post_caps == PostCaptures(clean)
  IN IF pre_caps.ok THEN parsed_from(pre_caps.op, pre_caps.ident)
     ELSE IF post_caps.ok THEN parsed_from(post_caps.op, post_caps.ident)
     ELSE Nothing

----------------------------------------------------------------------------
(* parse_line on its own *)

MaxTokens == 4

\* the pieces the texts are made of
ParseTokens ==
  { <<"+", "+">>, <<"-", "-">>, <<"?">>, <<"a">>, <<"1">>, <<".">>,
    <<"-", ">">>, <<":", ":">>, <<":">>, <<" ">>, <<";">> }

RECURSIVE Concat(_)
Concat(pieces) ==
  IF Len(pieces) = 0 THEN <<>> ELSE pieces[1] \o Concat(Tail(pieces))

Texts == {Concat(pieces) : pieces \in StringsUpTo(ParseTokens, MaxTokens)}

InitParse ==
  /\ NotRunning
  /\ StoreLoaded({NoFile})
  /\ arg \in Texts
  /\ res = <<>>
  /\ arg2 = <<>>
  /\ res2 = <<>>

\* parse_line(arg)
ParseLine ==
  /\ res = <<>>
  /\ res' = <<parse_line(arg)>>
  /\ UNCHANGED <<arg, arg2, res2, sessionVars, dbVars>>

NextParse == ParseLine

SpecParse == InitParse /\ [][NextParse]_vars

\* The reference grammar.  An identifier starts with a letter or `_`; each
\* of its bytes is a letter, a digit or `_`, or belongs to a separator (`.`,
\* `->` or `::`) that stands between a segment byte and a segment start.
Joins2(id, i, sep) ==
  /\ i > 1 /\ i + 2 <= Len(id)
  /\ id[i] = sep[1] /\ id[i + 1] = sep[2]
  /\ IsIdentChar(id[i - 1]) /\ IsIdentStart(id[i + 2])

RefIdent(id) ==
  /\ Len(id) > 0
  /\ IsIdentStart(id[1])
  /\ \A i \in 1..Len(id) :
       \/ IsIdentChar(id[i])
       \/ /\ id[i] = "."
          /\ i > 1 /\ i < Len(id)
          /\ IsIdentChar(id[i - 1]) /\ IsIdentStart(id[i + 1])
       \/ \E sep \in {<<"-", ">">>, <<":", ":">>} :
            Joins2(id, i, sep) \/ Joins2(id, i - 1, sep)

AllSpace(t, i, j) == \A n \in i..j : IsSpace(t[n])

AllTrail(t, i, j) == \A n \in i..j : IsSpace(t[n]) \/ t[n] = ";"

\* the results the grammar gives the text t: a prefix form is t[1..a] white,
\* an operator, white up to b, an identifier up to c, then the trailer; a
\* postfix form is white, an identifier up to b, white up to c, an operator,
\* then the trailer
RefForms(t) ==
  LET cuts == 0..Len(t)
      PreOps == {<<"+", "+">>, <<"-", "-">>, <<"?">>}
      PostOps == {<<"+", "+">>, <<"-", "-">>}
      OpAfter(op, a) ==
        a + Len(op) <= Len(t) /\ SubSeq(t, a + 1, a + Len(op)) = op
      PrefixHead(op) ==
        {y \in cuts \X cuts :
           /\ AllSpace(t, 1, y[1])
           /\ OpAfter(op, y[1])
           /\ y[1] + Len(op) <= y[2]
           /\ AllSpace(t, y[1] + Len(op) + 1, y[2])}
      PostfixHead ==
        {y \in cuts \X cuts :
           /\ AllSpace(t, 1, y[1])
           /\ y[1] < y[2]
           /\ RefIdent(SubSeq(t, y[1] + 1, y[2]))}
  IN UNION { UNION { { parsed_from(op, SubSeq(t, y[2] + 1, c)) :
                         c \in {z \in (y[2] + 1)..Len(t) :
                                  /\ RefIdent(SubSeq(t, y[2] + 1, z))
                                  /\ AllTrail(t, z + 1, Len(t))} } :
                     y \in PrefixHead(op) } :
             op \in PreOps }
     \cup
     UNION { UNION { { parsed_from(op, SubSeq(t, y[1] + 1, y[2])) :
                         c \in {z \in y[2]..Len(t) :
                                  /\ AllSpace(t, y[2] + 1, z)
                                  /\ OpAfter(op, z)
                                  /\ AllTrail(t, z + Len(op) + 1, Len(t))} } :
                     y \in PostfixHead } :
             op \in PostOps }

\* C14: parse_line agrees with the reference grammar on every text: its
\* result is the one the grammar gives the comment-stripped text, with the
\* identifier as written, and Nothing when the grammar gives none.
C14_Grammar ==
  res # <<>> =>
    IF RefForms(Clean(arg, 1)) = {} THEN res = <<Nothing>>
    ELSE RefForms(Clean(arg, 1)) = {res[1]}

\* a postfix increment of a two-segment identifier
C14_Witness ==
  /\ arg = <<"a", ":", ":", "a", "+", "+">>
  /\ res = <<Increment(<<"a", ":", ":", "a">>)>>

----------------------------------------------------------------------------
(* parse_line on a text and on the same text with a comment put in *)

MaxPlain == 3

PlainTokens ==
  { <<"+", "+">>, <<"?">>, <<"a", ":", ":", "a">>, <<"a", "-", ">", "a">>,
    <<" ">>, <<"/">> }

\* the text holds no `/*` and no `//`
CommentFree(t) ==
  \A i \in 1..(Len(t) - 1) : ~(t[i] = "/" /\ t[i + 1] \in {"*", "/"})

PlainTexts ==
  {t \in {Concat(pieces) : pieces \in StringsUpTo(PlainTokens, MaxPlain)} :
     CommentFree(t)}

\* what stands between `/*` and `*/`
BlockBodies == {<<>>, <<"+", "+", "a">>, <<"x", "/">>}

\* what stands after `//`
LineBodies == {<<>>, <<"-", "-", "a">>, <<"/">>}

InitComment ==
  /\ NotRunning
  /\ StoreLoaded({NoFile})
  /\ arg \in PlainTexts
  /\ res = <<>>
  /\ arg2 = <<>>
  /\ res2 = <<>>

\* parse_line on arg with a block comment put in after its first `at` bytes
InsertBlock ==
  /\ res # <<>> /\ res2 = <<>>
  /\ \E at \in 0..Len(arg), body \in BlockBodies :
       arg2' = [kind |-> "block", at |-> at, body |-> body,
                text |-> SubSeq(arg, 1, at) \o <<"/", "*">> \o body
                           \o <<"*", "/">> \o SubSeq(arg, at + 1, Len(arg))]
  /\ res2' = <<parse_line(arg2'.text)>>
  /\ UNCHANGED <<arg, res, sessionVars, dbVars>>

\* parse_line on arg with a line comment put at its end
AppendLine ==
  /\ res # <<>> /\ res2 = <<>>
  /\ \E body \in LineBodies :
       arg2' = [kind |-> "line", at |-> Len(arg), body |-> body,
                text |-> arg \o <<"/", "/">> \o body]
  /\ res2' = <<parse_line(arg2'.text)>>
  /\ UNCHANGED <<arg, res, sessionVars, dbVars>>

NextComment ==
  \/ ParseLine
  \/ InsertBlock
  \/ AppendLine

SpecComment == InitComment /\ [][NextComment]_vars

NoSlash(t) == \A i \in 1..Len(t) : t[i] # "/"

\* C15 as stated: for every comment-free text, a block comment put in at any
\* position, or a line comment put at the end, leaves the result of
\* parse_line as it was; a text with nothing outside its comment gives Nothing.
C15_CommentsIgnored ==
  res2 # <<>> =>
    /\ res2 = res
    /\ AllSpace(arg, 1, Len(arg)) => res2 = <<Nothing>>

\* C15, amended: the same for every text that holds no `/`, and every block
\* comment whose body holds no `/`.
C15_PlainComments ==
  res2 # <<>> =>
    /\ (NoSlash(arg) /\ (arg2.kind = "block" => NoSlash(arg2.body))) => res2 = res
    /\ AllSpace(arg, 1, Len(arg)) => res2 = <<Nothing>>

\* a comment full of operators inside the separator of an increment
C15_Witness ==
  /\ arg = <<"+", "+", "a", ":", ":", "a">>
  /\ res2 # <<>>
  /\ arg2.kind = "block" /\ arg2.at = 4 /\ arg2.body = <<"+", "+", "a">>
  /\ res2 = <<Increment(<<"a", ":", ":", "a">>)>>

----------------------------------------------------------------------------
(* The session when the server sends chat messages *)

\* what one sock.read may return: a chat line with a command as its body
ChatChunks ==
  { <<":", "u", " ">> \o STR_PRIVMSG \o <<" ", "c", " ", ":">> \o body
      \o <<"\n">> :
      body \in { <<"+", "+", "a">>, <<"a", "-", "-", "\r">>, <<"?", "a">>,
                 <<"h", "i">> } }

ReadChat ==
  /\ ev' = "ReadChat"
  /\ reads < MaxReads
  /\ reads' = reads + 1
  /\ \E c \in ChatChunks : ReadBytes(c)
  /\ UNCHANGED pureVars

\* a run on a network that connects at once and stays up
NextChat ==
  \/ Join
  \/ RunStart
  \/ ConnectOk
  \/ LoopTop
  \/ ReadChat
  \/ SignalShutdown
  \/ LoopShutdown
  \/ Exit

SpecChat == Init /\ [][NextChat]_vars

\* a dispatched line whose second token is PRIVMSG and that has a body
IsChat(parts) == Len(parts) >= 4 /\ parts[2] = STR_PRIVMSG

\* the body of a chat line: the trailing token without its `:`
ChatBody(parts) ==
  IF parts[4][1] = ":" THEN SubSeq(parts[4], 2, Len(parts[4])) ELSE parts[4]

\* C16: when a chat line with a body is dispatched, the body is parsed and
\* the store follows: Increment(key) and Decrement(key) change the value of
\* key by +1 and -1 and set dirty, Query(key) and Nothing change nothing.
C16_ChatCommand ==
  [][\A i \in 1..Len(dispatched') :
       (ev' = "ReadChat" /\ IsChat(dispatched'[i])) =>
         LET cmd == parse_line(ChatBody(dispatched'[i])) IN
           CASE cmd.kind = "Increment" ->
                  value(values', cmd.ident) = Succ(value(values, cmd.ident)) /\ dirty'
             [] cmd.kind = "Decrement" ->
                  value(values', cmd.ident) = Pred(value(values, cmd.ident)) /\ dirty'
             [] OTHER -> values' = values /\ dirty' = dirty
    ]_vars

----------------------------------------------------------------------------
(* The keepalive state at the select *)

\* C17: whenever the loop waits at its select, ping_state is Waiting or
\* PingPending and never Reset, so ping_timer never fires in Reset and the
\* unreachable!() arm is never run.
C17_NeverReset ==
  /\ pc = "select" => ping_state \in {"Waiting", "PingPending"}
  /\ pc # "panicked"

\* the loop waits again after a PONG put ping_state back to Reset
C17_Witness ==
  /\ pc = "select"
  /\ ev = "LoopTop"
  /\ probe = "answered"
  /\ ping_state = "Waiting"
  /\ ping_timer = PING_INTERVAL

----------------------------------------------------------------------------
(* Framing: one byte stream, read in parts on the first connection of a run *)

StreamAlphabet == {"a", " ", ":", "\n"}

Streams == StringsUpTo(StreamAlphabet, MaxStream)

InitFrame ==
  /\ NotRunning
  /\ StoreLoaded({NoFile})
  /\ arg \in Streams
  /\ res = <<>>
  /\ arg2 = <<>>
  /\ res2 = <<>>

\* sock.read returns the next n > 0 bytes of the stream arg; arg2 is what has
\* been read so far and res the lines dispatched so far
ReadPart ==
  /\ ev' = "ReadPart"
  /\ \E n \in 1..(Len(arg) - Len(arg2)) :
       LET c == SubSeq(arg, Len(arg2) + 1, Len(arg2) + n) IN
         /\ ReadBytes(c)
         /\ arg2' = arg2 \o c
  /\ res' = res \o dispatched'
  /\ UNCHANGED <<reads, arg, res2>>

NextFrame ==
  \/ RunStart
  \/ ConnectOk
  \/ LoopTop
  \/ ReadPart

SpecFrame == InitFrame /\ [][NextFrame]_vars

\* the positions of the newlines of s, and the k-th of them
Newlines(s) == {i \in 1..Len(s) : s[i] = "\n"}

NthNewline(s, k) ==
  IF k = 0 THEN 0
  ELSE CHOOSE i \in Newlines(s) :
         Cardinality({j \in Newlines(s) : j <= i}) = k

\* the newline-terminated lines of s, each as the tokens it is dispatched as
LinesOf(s) ==
  [k \in 1..Cardinality(Newlines(s)) |->
     irc_split(SubSeq(s, NthNewline(s, k - 1) + 1, NthNewline(s, k) - 1))]

\* the bytes of s after its last newline
AfterLastNewline(s) ==
  SubSeq(s, NthNewline(s, Cardinality(Newlines(s))) + 1, Len(s))

----------------------------------------------------------------------------
(* irc_split on its own: the bytes of one line, its newline taken off *)

LineAlphabet == {"a", ":", " ", "\r"}

Lines == StringsUpTo(LineAlphabet, MaxLine)

InitSplit ==
  /\ NotRunning
  /\ StoreLoaded({NoFile})
  /\ arg \in Lines
  /\ res = <<>>
  /\ arg2 = <<>>
  /\ res2 = <<>>

\* irc_split(arg)
SplitLine ==
  /\ res = <<>>
  /\ res' = <<irc_split(arg)>>
  /\ UNCHANGED <<arg, arg2, res2, sessionVars, dbVars>>

NextSplit == SplitLine

SpecSplit == InitSplit /\ [][NextSplit]_vars

\* the line without its trailing whitespace
RECURSIVE TrimEnd(_)
TrimEnd(line) ==
  IF Len(line) > 0 /\ is_ascii_whitespace(line[Len(line)])
  THEN TrimEnd(SubSeq(line, 1, Len(line) - 1))
  ELSE line

\* the end of the run of non-whitespace bytes that starts at i
RECURSIVE WordEnd(_, _)
WordEnd(t, i) ==
  IF i <= Len(t) /\ ~is_ascii_whitespace(t[i]) THEN WordEnd(t, i + 1) ELSE i

\* the tokens of t from byte i on: maximal runs of non-whitespace, but a
\* token that starts with `:` takes the rest of t
RECURSIVE WordsFrom(_, _)
WordsFrom(t, i) ==
  IF i > Len(t) THEN <<>>
  ELSE IF is_ascii_whitespace(t[i]) THEN WordsFrom(t, i + 1)
  ELSE IF t[i] = ":" THEN <<SubSeq(t, i, Len(t))>>
  ELSE <<SubSeq(t, i, WordEnd(t, i) - 1)>> \o WordsFrom(t, WordEnd(t, i))

\* C19: the tokens of a line are those of the line with its trailing
\* whitespace trimmed: maximal runs of non-whitespace, a token starting with
\* `:` taking the rest of the line and being the last; no token is empty or
\* ends in CR or other whitespace.
C19_Tokens ==
  res # <<>> =>
    /\ res[1] = WordsFrom(TrimEnd(arg), 1)
    /\ \A i \in 1..Len(res[1]) :
         /\ res[1][i] # <<>>
         /\ ~is_ascii_whitespace(res[1][i][Len(res[1][i])])

----------------------------------------------------------------------------
(* The pending buffer across a reconnect *)

\* C20: when a connection has just been made and nothing has been read from
\* it yet, the pending buffer is empty, so no fragment of the connection
\* before it is put in front of the first line of the new one.
C20_FreshBuffer ==
  (sock = "open" /\ rx = 0 /\ pc \in {"loop_top", "select"}) => chunk = <<>>


====
